---------------------------- MODULE Spec2Model ----------------------------
(***************************************************************************)
(* A model of the Nano client library of main.ipynb: key derivation, the   *)
(* address codec, block hashing and the proof-of-work engine.              *)
(*                                                                         *)
(* Python values are represented as follows.                               *)
(*   str    a sequence of one-character strings  (<<"a","b">> is 'ab')     *)
(*   bytes  a sequence of integers in 0..255                               *)
(*   a call that returns v     [ok |-> TRUE,  val |-> v]                   *)
(*   a call that raises  e     [ok |-> FALSE, err |-> e]                   *)
(* The cryptographic primitives (blake2b, ed25519) and nanolib's base-32   *)
(* codec are library code; they are modelled by small deterministic        *)
(* functions of the same shape (see each definition).                      *)
(***************************************************************************)
EXTENDS Integers, Sequences, FiniteSets, TLC

VARIABLES
    gen,      \* latest call of generate_public_private_key_pairs
    genPrev,  \* the call of generate_public_private_key_pairs before it
    enc,      \* latest call of derive_address_from_public_key
    dec,      \* latest call of derive_public_key_from_address
    hash,     \* latest call of create_block_hash
    hashPrev, \* the call of create_block_hash before it
    gbh,      \* latest call of get_block_hash
    cw,       \* the activation of compute_work (running or finished)
    vw,       \* latest call of validate_work
    pb,       \* the activation of process_block (running or finished)
    requests  \* the requests that activation has posted to the node

vars == <<gen, genPrev, enc, dec, hash, hashPrev, gbh, cw, vw, pb, requests>>

(***************************************************************************)
(* Program constants.                                                      *)
(***************************************************************************)
SEED_SIZE_BYTES == 32
KEYS_SIZE_BYTES == 32
CHECKSUM_DIGEST_SIZE_BYTES == 5
PRIVATE_KEY_INDEX_SIZE_BYTES == 4
SIGNATURE_DIGEST_SIZE_BYTES == 32
WORK_SIZE_BYTES == 8
BALANCE_SIZE_BYTES == 16

(***************************************************************************)
(* Results of calls.                                                       *)
(***************************************************************************)
Ok(v) == [ok |-> TRUE, val |-> v]
Err(e) == [ok |-> FALSE, err |-> e]
Idle == [op |-> "idle"]

(***************************************************************************)
(* Characters and strings.                                                 *)
(***************************************************************************)
Digits == <<"0","1","2","3","4","5","6","7","8","9">>
LowerAlpha == <<"a","b","c","d","e","f","g","h","i","j","k","l","m",
                "n","o","p","q","r","s","t","u","v","w","x","y","z">>
UpperAlpha == <<"A","B","C","D","E","F","G","H","I","J","K","L","M",
                "N","O","P","Q","R","S","T","U","V","W","X","Y","Z">>

IndexOf(seq, c) ==
    IF \E i \in 1..Len(seq) : seq[i] = c
    THEN CHOOSE i \in 1..Len(seq) : seq[i] = c
    ELSE 0

\* The code point of a character (ord).
Ord(c) ==
    IF IndexOf(Digits, c) > 0 THEN 47 + IndexOf(Digits, c)
    ELSE IF IndexOf(UpperAlpha, c) > 0 THEN 64 + IndexOf(UpperAlpha, c)
    ELSE IF IndexOf(LowerAlpha, c) > 0 THEN 96 + IndexOf(LowerAlpha, c)
    ELSE CASE c = "\n" -> 10
           [] c = " " -> 32
           [] c = "+" -> 43
           [] c = "-" -> 45
           [] c = "_" -> 95
           [] OTHER -> 63

\* str.upper() on one character.
UpperChar(c) ==
    IF IndexOf(LowerAlpha, c) > 0 THEN UpperAlpha[IndexOf(LowerAlpha, c)] ELSE c

\* str.upper().
Upper(s) == [i \in 1..Len(s) |-> UpperChar(s[i])]

\* set(s): the set of the characters of a string.
CharSet(s) == {s[i] : i \in 1..Len(s)}

\* Python's s[start:] and s[start:-fromEnd] and s[-n:] on sequences
\* (start counts from 0, as in the source).
PySlice(s, start, fromEnd) ==
    LET stop == IF Len(s) - fromEnd < 0 THEN 0 ELSE Len(s) - fromEnd
        first == IF start > Len(s) THEN Len(s) ELSE start
    IN  IF stop <= first THEN <<>> ELSE SubSeq(s, first + 1, stop)

PyTail(s, n) == IF n >= Len(s) THEN s ELSE SubSeq(s, Len(s) - n + 1, Len(s))

Reverse(s) == [i \in 1..Len(s) |-> s[Len(s) + 1 - i]]

\* Python's a >= b on two str: lexicographic by code point, a proper prefix
\* being the smaller.
RECURSIVE StrGE(_, _)
StrGE(a, b) ==
    IF b = <<>> THEN TRUE
    ELSE IF a = <<>> THEN FALSE
    ELSE IF Ord(Head(a)) > Ord(Head(b)) THEN TRUE
    ELSE IF Ord(Head(a)) < Ord(Head(b)) THEN FALSE
    ELSE StrGE(Tail(a), Tail(b))

(***************************************************************************)
(* binascii.hexlify / binascii.unhexlify.                                  *)
(***************************************************************************)
HexDigitsLower == <<"0","1","2","3","4","5","6","7","8","9","a","b","c","d","e","f">>
HexDigitsUpper == <<"0","1","2","3","4","5","6","7","8","9","A","B","C","D","E","F">>

\* The value of a hexadecimal digit of either case, -1 for any other character.
HexValue(c) ==
    IF IndexOf(HexDigitsLower, c) > 0 THEN IndexOf(HexDigitsLower, c) - 1
    ELSE IF IndexOf(HexDigitsUpper, c) > 0 THEN IndexOf(HexDigitsUpper, c) - 1
    ELSE -1

IsHexChar(c) == HexValue(c) >= 0

\* binascii.hexlify(b).decode(): two lower-case digits per byte.
hexlify(b) ==
    [i \in 1..(2 * Len(b)) |->
        IF i % 2 = 1 THEN HexDigitsLower[(b[(i + 1) \div 2] \div 16) + 1]
                     ELSE HexDigitsLower[(b[i \div 2] % 16) + 1]]

\* binascii.unhexlify(s): raises binascii.Error on an odd length or on a
\* character that is no hexadecimal digit.
unhexlify(s) ==
    IF Len(s) % 2 = 1 THEN Err("binascii.Error")
    ELSE IF \E i \in 1..Len(s) : ~IsHexChar(s[i]) THEN Err("binascii.Error")
    ELSE Ok([k \in 1..(Len(s) \div 2) |->
                16 * HexValue(s[2 * k - 1]) + HexValue(s[2 * k])])

(***************************************************************************)
(* hashlib.blake2b(data, digest_size = n).digest().  The hash is a library *)
(* primitive; it is modelled by a deterministic function from byte strings *)
(* to n bytes in which every output byte depends on the whole input and on *)
(* n.  Nothing below relies on it being collision free.                    *)
(***************************************************************************)
\* The input is absorbed byte by byte, a' = (31 * a + byte + 1) % 251; a run
\* of bytes lo..hi acts on a as a |-> (m * a + c) % 251, and AbsorbMap
\* computes <<m, c>> by halves.
RECURSIVE AbsorbMap(_, _, _)
AbsorbMap(data, lo, hi) ==
    IF lo > hi THEN <<1, 0>>
    ELSE IF lo = hi THEN <<31, (data[lo] + 1) % 251>>
    ELSE LET mid == (lo + hi) \div 2
             l == AbsorbMap(data, lo, mid)
             r == AbsorbMap(data, mid + 1, hi)
         IN  <<(l[1] * r[1]) % 251, (r[1] * l[2] + r[2]) % 251>>

Absorb(data, a) ==
    LET f == AbsorbMap(data, 1, Len(data))
    IN  (f[1] * a + f[2]) % 251

blake2b(data, n) ==
    LET a == Absorb(data, (Len(data) * 7 + n) % 251)
    IN  [i \in 1..n |->
            ((IF i <= Len(data) THEN data[i] ELSE 0) + (i + 1) * a + i) % 256]

(***************************************************************************)
(* nanolib.bytes_to_nbase32 / nanolib.nbase32_to_bytes: 5 bits a           *)
(* character, most significant bit first, zero bits added in front to fill *)
(* the first character, and the bits in front that fill no whole byte      *)
(* dropped on the way back.                                                *)
(***************************************************************************)
NBASE32_ALPHABET ==
    <<"1","3","4","5","6","7","8","9","a","b","c","d","e","f","g","h",
      "i","j","k","m","n","o","p","q","r","s","t","u","w","x","y","z">>

Pow2(n) == IF n = 0 THEN 1 ELSE IF n = 1 THEN 2 ELSE IF n = 2 THEN 4
           ELSE IF n = 3 THEN 8 ELSE IF n = 4 THEN 16 ELSE IF n = 5 THEN 32
           ELSE IF n = 6 THEN 64 ELSE 128

\* Bit j (from 1, most significant first) of a byte string.
BitOfBytes(b, j) == (b[((j - 1) \div 8) + 1] \div Pow2(7 - ((j - 1) % 8))) % 2

bytes_to_nbase32(b) ==
    LET n == 8 * Len(b)
        pad == (5 - (n % 5)) % 5
        bit(j) == IF j <= pad THEN 0 ELSE BitOfBytes(b, j - pad)
    IN  [c \in 1..((n + pad) \div 5) |->
            NBASE32_ALPHABET[1 + 16 * bit(5 * c - 4) + 8 * bit(5 * c - 3)
                               + 4 * bit(5 * c - 2) + 2 * bit(5 * c - 1)
                               + bit(5 * c)]]

\* Bit j (from 1) of a base-32 string whose characters are all of the alphabet.
BitOfNbase32(s, j) ==
    ((IndexOf(NBASE32_ALPHABET, s[((j - 1) \div 5) + 1]) - 1)
        \div Pow2(4 - ((j - 1) % 5))) % 2

nbase32_to_bytes(s) ==
    LET n == 5 * Len(s)
        drop == n % 8
        bit(j) == BitOfNbase32(s, drop + j)
    IN  [k \in 1..(n \div 8) |->
            128 * bit(8 * k - 7) + 64 * bit(8 * k - 6) + 32 * bit(8 * k - 5)
            + 16 * bit(8 * k - 4) + 8 * bit(8 * k - 3) + 4 * bit(8 * k - 2)
            + 2 * bit(8 * k - 1) + bit(8 * k)]

(***************************************************************************)
(* NANO_ADDRESS_REGEX = '^(nano|xrb)_[13]{1}[alphabet]{59}$' under         *)
(* re.match: '$' also matches just before a final newline.                 *)
(***************************************************************************)
StartsWith(s, p) == Len(s) >= Len(p) /\ SubSeq(s, 1, Len(p)) = p

MatchesAfterPrefix(s, p) ==
    LET rest == PySlice(s, Len(p), 0)
        body == IF Len(rest) = 61 /\ rest[61] = "\n" THEN SubSeq(rest, 1, 60) ELSE rest
    IN  /\ StartsWith(s, p)
        /\ Len(body) = 60
        /\ body[1] \in {"1", "3"}
        /\ \A i \in 2..60 : IndexOf(NBASE32_ALPHABET, body[i]) > 0

NANO_ADDRESS_REGEX(s) ==
    \/ MatchesAfterPrefix(s, <<"n","a","n","o","_">>)
    \/ MatchesAfterPrefix(s, <<"x","r","b","_">>)

(***************************************************************************)
(* The address codec.                                                      *)
(***************************************************************************)
\* The checksum characters of a key: hash, reverse, encode.
AddressChecksum(key) ==
    bytes_to_nbase32(Reverse(blake2b(key, CHECKSUM_DIGEST_SIZE_BYTES)))

ChecksumNotReversed(key) == bytes_to_nbase32(blake2b(key, CHECKSUM_DIGEST_SIZE_BYTES))

EncodeChecksumNotReversed(public_key) ==
    LET key == unhexlify(public_key)
    IN  IF ~key.ok THEN key
        ELSE Ok(<<"n","a","n","o","_">> \o bytes_to_nbase32(key.val)
                \o ChecksumNotReversed(key.val))

derive_address_from_public_key(public_key) ==
    LET key == unhexlify(public_key)
    IN  IF ~key.ok THEN key
        ELSE Ok(<<"n","a","n","o","_">> \o bytes_to_nbase32(key.val)
                \o AddressChecksum(key.val))

DecodeWithoutChecksumTest(address) ==
    IF ~NANO_ADDRESS_REGEX(address) THEN Err("InvalidAddress")
    ELSE Ok(Upper(hexlify(nbase32_to_bytes(PySlice(address, 5, 8)))))

derive_public_key_from_address(address) ==
    IF ~NANO_ADDRESS_REGEX(address) THEN Err("InvalidAddress")
    ELSE LET address_part == PySlice(address, 5, 8)
             checksum == PyTail(address, 8)
             public_key == nbase32_to_bytes(address_part)
             computed_checksum ==
                 bytes_to_nbase32(Reverse(blake2b(public_key, 5)))
         IN  IF checksum # computed_checksum
             THEN Err("ChecksumMismatch")
             ELSE Ok(Upper(hexlify(public_key)))

(***************************************************************************)
(* Inputs of the address codec.                                            *)
(***************************************************************************)
NumKeys == 3
NumAlt == 2

\* Sample 32-byte keys: key 0 is all zero, key 2 has its top bit set.
KeyBytes(n) == [i \in 1..KEYS_SIZE_BYTES |-> (n * 89 + i * n * 7) % 256]

Keys == {KeyBytes(n) : n \in 0..(NumKeys - 1)}

\* Hexadecimal public keys as callers pass them, and two strings that are
\* no hexadecimal encoding.
PublicKeyInputs ==
    {Upper(hexlify(k)) : k \in Keys} \cup {hexlify(k) : k \in Keys}
    \cup {<<"A","B","C">>, <<"x","y">>}

XrbForm(address) == <<"x","r","b","_">> \o PySlice(address, 5, 0)
NanoForm(address) == <<"n","a","n","o","_">> \o PySlice(address, 4, 0)

\* The alphabet character `shift` places after c (cyclically).
ShiftChar(c, shift) ==
    NBASE32_ALPHABET[((IndexOf(NBASE32_ALPHABET, c) - 1 + shift) % 32) + 1]

\* address with the p-th character of its 8-character suffix replaced.
FlipChecksumChar(address, p, shift) ==
    [address EXCEPT ![Len(address) - 8 + p] = ShiftChar(@, shift)]

FlippedForms(address) ==
    {FlipChecksumChar(address, p, sh) : p \in 1..8, sh \in 1..NumAlt}

\* Strings that are no address.
MalformedAddresses ==
    {<<>>, <<"n","a","n","o","_","1">>, <<"x","r","b","_","3","z">>}

\* What callers pass to derive_public_key_from_address: an address just
\* encoded, in either prefix, with a suffix character replaced, with a
\* final newline, cut short, in upper case, and strings that are no address.
AddressInputs ==
    IF enc.op = "idle" \/ ~enc.ret.ok THEN MalformedAddresses
    ELSE LET a == enc.ret.val
         IN  {a, XrbForm(a), a \o <<"\n">>, PySlice(a, 0, 1), Upper(a),
              [a EXCEPT ![6] = "5"]}
             \cup FlippedForms(a) \cup FlippedForms(XrbForm(a))
             \cup MalformedAddresses

(***************************************************************************)
(* Address codec calls.                                                    *)
(***************************************************************************)
DeriveAddressFromPublicKey ==
    /\ \E public_key \in PublicKeyInputs :
           enc' = [op |-> "derive_address_from_public_key",
                   public_key |-> public_key,
                   ret |-> derive_address_from_public_key(public_key)]
    /\ dec' = Idle
    /\ UNCHANGED <<gen, genPrev, hash, hashPrev, gbh, cw, vw, pb, requests>>

DerivePublicKeyFromAddress ==
    /\ \E address \in AddressInputs :
           dec' = [op |-> "derive_public_key_from_address",
                   address |-> address,
                   ret |-> derive_public_key_from_address(address)]
    /\ UNCHANGED <<gen, genPrev, enc, hash, hashPrev, gbh, cw, vw, pb, requests>>

Init ==
    /\ gen = Idle
    /\ genPrev = Idle
    /\ enc = Idle
    /\ dec = Idle
    /\ hash = Idle
    /\ hashPrev = Idle
    /\ gbh = Idle
    /\ cw = Idle
    /\ vw = Idle
    /\ pb = Idle
    /\ requests = <<>>

NextAddress == DeriveAddressFromPublicKey \/ DerivePublicKeyFromAddress

SpecAddress == Init /\ [][NextAddress]_vars

(***************************************************************************)
(* Claims about the address codec, checked under SpecAddress.              *)
(***************************************************************************)
Decoded == dec.op = "derive_public_key_from_address"
Encoded == enc.op = "derive_address_from_public_key" /\ enc.ret.ok

\* C1: an address produced by derive_address_from_public_key matches the
\* address pattern, and derive_public_key_from_address on it succeeds and
\* returns the key that was encoded (in upper-case hexadecimal).
C1_AddressRoundTrip ==
    (Encoded /\ Decoded /\ dec.address = enc.ret.val)
        => /\ NANO_ADDRESS_REGEX(enc.ret.val)
           /\ dec.ret = Ok(Upper(enc.public_key))
           /\ unhexlify(dec.ret.val) = unhexlify(enc.public_key)

\* A key with its top bit set was encoded and decoded again.
C1_Witness ==
    /\ Encoded /\ Decoded
    /\ dec.address = enc.ret.val
    /\ dec.ret.ok
    /\ enc.ret.val[6] = "3"

\* C7: an address written with the prefix xrb_ decodes to the same public key
\* as the same body and checksum written with the prefix nano_.
C7_PrefixAliasing ==
    (/\ Decoded
     /\ StartsWith(dec.address, <<"x","r","b","_">>)
     /\ derive_public_key_from_address(NanoForm(dec.address)).ok)
        => dec.ret = derive_public_key_from_address(NanoForm(dec.address))

\* Whether b is a with exactly one character of its last 8 replaced by
\* another character of the alphabet.
OneChecksumCharReplaced(a, b) ==
    /\ Len(a) = Len(b)
    /\ Len(a) >= 8
    /\ Cardinality({i \in 1..Len(a) : a[i] # b[i]}) = 1
    /\ \A i \in 1..Len(a) :
           a[i] # b[i] => i > Len(a) - 8 /\ IndexOf(NBASE32_ALPHABET, b[i]) > 0

\* C10: a valid address with one character of its checksum suffix replaced
\* by another alphabet character is rejected with the checksum error, and an
\* address is accepted only when its suffix is the checksum (hash, byte
\* reversal, encoding) of the key that is returned.
C10_ChecksumSensitivity ==
    /\ (/\ Encoded /\ Decoded
        /\ \/ OneChecksumCharReplaced(enc.ret.val, dec.address)
           \/ OneChecksumCharReplaced(XrbForm(enc.ret.val), dec.address))
           => dec.ret = Err("ChecksumMismatch")
    /\ (Decoded /\ dec.ret.ok)
           => PyTail(dec.address, 8) = AddressChecksum(unhexlify(dec.ret.val).val)

\* The last character of the suffix of a valid address was replaced and the
\* address was refused.
C10_Witness ==
    /\ Encoded /\ Decoded
    /\ OneChecksumCharReplaced(enc.ret.val, dec.address)
    /\ dec.address[Len(dec.address)] # enc.ret.val[Len(enc.ret.val)]
    /\ ~dec.ret.ok

(***************************************************************************)
(* Key derivation.  A Python int is unbounded; an index is held as two     *)
(* 16-bit limbs, [hi |-> h, lo |-> l] standing for h * 65536 + l, so that   *)
(* values around 2^32 can be written.  Indexes are non-negative.           *)
(***************************************************************************)
Index(h, l) == [hi |-> h, lo |-> l]

\* A test that lets 2^32 .. 2^32 + 2^16 - 1 through.
IndexAbove2Pow32Plus(index) == index.hi > 65536

\* index > 2 ** 32 - 1
IndexAbove32Bits(index) == index.hi > 65535

\* int(index).to_bytes(8, byteorder='big')
IndexToBytes8(index) ==
    <<0, 0,
      (index.hi \div 16777216) % 256, (index.hi \div 65536) % 256,
      (index.hi \div 256) % 256, index.hi % 256,
      index.lo \div 256, index.lo % 256>>

\* ...[:-PRIVATE_KEY_INDEX_SIZE_BYTES]: all but the last 4 of the 8 bytes.
IndexInBytes(index) == PySlice(IndexToBytes8(index), 0, PRIVATE_KEY_INDEX_SIZE_BYTES)

\* The bytes given to the hasher: the seed, then the index bytes.
KeyHashInput(seed_bytes, index) == seed_bytes \o IndexInBytes(index)

\* ed25519_blake2b.SigningKey(private_key).get_verifying_key().to_bytes():
\* a library primitive, modelled by a one-to-one map of 32 bytes.
VerifyingKey(private_key) ==
    [i \in 1..Len(private_key) |-> (private_key[i] * 5 + 3 * i + 1) % 256]

generate_public_private_key_pairs(seed, index) ==
    IF IndexAbove32Bits(index) THEN Err("IndexOutOfRange")
    ELSE LET seed_bytes == unhexlify(seed)
         IN  IF ~seed_bytes.ok THEN seed_bytes
             ELSE LET private_key ==
                          blake2b(KeyHashInput(seed_bytes.val, index), KEYS_SIZE_BYTES)
                  IN  Ok(<<Upper(hexlify(private_key)),
                           Upper(hexlify(VerifyingKey(private_key)))>>)

NumSeeds == 2
NumIndexes == 3

SeedBytes(n) == [i \in 1..SEED_SIZE_BYTES |-> (n * 53 + i * 11 + 5) % 256]

\* Seeds as generate_seed returns them (upper-case hexadecimal), and one
\* string that is no hexadecimal encoding.
SeedInputs ==
    {Upper(hexlify(SeedBytes(n))) : n \in 0..(NumSeeds - 1)} \cup {<<"S","E","E","D">>}

\* 0, 1, ..., indexes around 2^8, 2^16 and 2^32, and 2^47 - 1.
IndexInputs ==
    {Index(0, l) : l \in 0..(NumIndexes - 1)}
    \cup {Index(0, 255), Index(0, 256), Index(0, 65535), Index(1, 0),
          Index(65535, 65535), Index(65536, 0), Index(65536, 1),
          Index(2147483647, 65535)}

GenerateKeyPair ==
    /\ \E seed \in SeedInputs, index \in IndexInputs :
           gen' = [op |-> "generate_public_private_key_pairs",
                   seed |-> seed,
                   index |-> index,
                   hashed |-> IF ~IndexAbove32Bits(index) /\ unhexlify(seed).ok
                              THEN KeyHashInput(unhexlify(seed).val, index)
                              ELSE <<>>,
                   ret |-> generate_public_private_key_pairs(seed, index)]
    /\ genPrev' = gen
    /\ UNCHANGED <<enc, dec, hash, hashPrev, gbh, cw, vw, pb, requests>>

NextKeys == GenerateKeyPair

SpecKeys == Init /\ [][NextKeys]_vars

(***************************************************************************)
(* Claims about key derivation, checked under SpecKeys.                    *)
(***************************************************************************)
Generated(g) == g.op = "generate_public_private_key_pairs" /\ g.ret.ok

\* The low-order 4 bytes of the 8-byte big-endian representation of an index.
LowOrder4(index) == SubSeq(IndexToBytes8(index), 5, 8)

\* C2: for one seed, two different indexes make the hashed byte strings differ
\* (each is the seed followed by the low-order 4 bytes of the index), and the
\* same seed and index give the same result.
C2_KeyPerIndex ==
    (Generated(gen) /\ Generated(genPrev) /\ gen.seed = genPrev.seed)
        => /\ gen.index # genPrev.index => gen.hashed # genPrev.hashed
           /\ gen.index = genPrev.index => gen.ret = genPrev.ret
           /\ gen.hashed = unhexlify(gen.seed).val \o LowOrder4(gen.index)

\* C11: with a seed that is hexadecimal, index 2^32 - 1 gives a key pair; for
\* index 2^32 and every larger index the call fails with the index error,
\* whatever the seed, and nothing was given to the hasher.
C11_IndexBoundary ==
    gen.op = "generate_public_private_key_pairs"
        => /\ (gen.index = Index(65535, 65535) /\ unhexlify(gen.seed).ok)
                  => /\ gen.ret.ok
                     /\ Len(gen.ret.val[1]) = 2 * KEYS_SIZE_BYTES
                     /\ Len(gen.ret.val[2]) = 2 * KEYS_SIZE_BYTES
                     /\ Len(gen.hashed) = SEED_SIZE_BYTES + PRIVATE_KEY_INDEX_SIZE_BYTES
           /\ gen.index.hi >= 65536
                  => gen.ret = Err("IndexOutOfRange") /\ gen.hashed = <<>>

\* Index 2^32 - 1 was accepted, then index 2^32 was refused, with one seed.
C11_Witness ==
    /\ Generated(genPrev)
    /\ genPrev.index = Index(65535, 65535)
    /\ gen.op = "generate_public_private_key_pairs"
    /\ gen.seed = genPrev.seed
    /\ gen.index = Index(65536, 0)
    /\ gen.ret = Err("IndexOutOfRange")

(***************************************************************************)
(* Block hashing.  A block is a record of the five hashed fields, each a   *)
(* string: account, previous, representative, balance, link.               *)
(***************************************************************************)
\* STATE_BLOCK_HEADER_BYTES = unhexlify of 62 '0' characters and '06'.
STATE_BLOCK_HEADER_BYTES ==
    unhexlify([i \in 1..64 |-> IF i = 64 THEN "6" ELSE "0"]).val

IsDigit(c) == IndexOf(Digits, c) > 0
IsSpace(c) == c \in {" ", "\n"}

\* str.strip(): what int() ignores around a number.
RECURSIVE Strip(_)
Strip(s) ==
    IF s = <<>> THEN s
    ELSE IF IsSpace(Head(s)) THEN Strip(Tail(s))
    ELSE IF IsSpace(s[Len(s)]) THEN Strip(SubSeq(s, 1, Len(s) - 1))
    ELSE s

\* Arithmetic on unbounded integers is done on 16-bit limbs, most
\* significant first: limbs * factor + carry, one limb longer than limbs.
RECURSIVE TimesPlus(_, _, _)
TimesPlus(limbs, factor, carry) ==
    IF limbs = <<>> THEN <<carry>>
    ELSE LET v == limbs[Len(limbs)] * factor + carry
         IN  TimesPlus(SubSeq(limbs, 1, Len(limbs) - 1), factor, v \div 65536)
                 \o <<v % 65536>>

\* The value of at most four decimal digits.
SmallDecimal(d) ==
    LET n == Len(d)
        v(i) == IF i <= n THEN Ord(d[n + 1 - i]) - 48 ELSE 0
    IN  v(1) + 10 * v(2) + 100 * v(3) + 1000 * v(4)

\* The value of a string of decimal digits as BALANCE_SIZE_BYTES \div 2 limbs,
\* and whether it needs more: four digits at a time, from the right.
RECURSIVE DecimalValue(_)
DecimalValue(digits) ==
    IF Len(digits) <= 4
    THEN [limbs |-> [i \in 1..(BALANCE_SIZE_BYTES \div 2) |->
                        IF i = BALANCE_SIZE_BYTES \div 2 THEN SmallDecimal(digits) ELSE 0],
          over |-> FALSE]
    ELSE LET front == DecimalValue(SubSeq(digits, 1, Len(digits) - 4))
             r == TimesPlus(front.limbs, 10000,
                            SmallDecimal(SubSeq(digits, Len(digits) - 3, Len(digits))))
         IN  [limbs |-> Tail(r), over |-> front.over \/ r[1] # 0]

\* limbs as bytes, most significant first.
LimbsToBytes(limbs) ==
    [i \in 1..(2 * Len(limbs)) |->
        IF i % 2 = 1 THEN limbs[(i + 1) \div 2] \div 256 ELSE limbs[i \div 2] % 256]

NotUnderscore(c) == c # "_"

\* int(s) for a str: surrounding white space, an optional sign, and decimal
\* digits with single underscores between them; ValueError otherwise.
IsNumeral(body) ==
    /\ body # <<>>
    /\ \A i \in 1..Len(body) : IsDigit(body[i]) \/ body[i] = "_"
    /\ IsDigit(body[1]) /\ IsDigit(body[Len(body)])
    /\ \A i \in 1..(Len(body) - 1) : ~(body[i] = "_" /\ body[i + 1] = "_")

Signed(negative, value) ==
    [neg |-> negative /\ (value.over \/ \E i \in 1..Len(value.limbs) : value.limbs[i] # 0),
     bytes |-> LimbsToBytes(value.limbs),
     over |-> value.over]

SignAndBody(t) ==
    IF t # <<>> /\ Head(t) \in {"+", "-"}
    THEN [neg |-> Head(t) = "-", body |-> Tail(t)]
    ELSE [neg |-> FALSE, body |-> t]

ParseInt(n) ==
    IF ~IsNumeral(n.body) THEN Err("ValueError")
    ELSE Ok(Signed(n.neg, DecimalValue(SelectSeq(n.body, NotUnderscore))))

PyInt(s) == ParseInt(SignAndBody(Strip(s)))

\* int(balance).to_bytes(BALANCE_SIZE_BYTES, byteorder='big'): OverflowError
\* for a negative number and for one that needs more bytes.
ToBytes16(n) ==
    IF ~n.ok THEN n
    ELSE IF n.val.neg \/ n.val.over THEN Err("OverflowError")
    ELSE Ok(n.val.bytes)

BalanceBytes(balance) == ToBytes16(PyInt(balance))

\* re.match('^[a-fA-F0-9]+$', s): '$' also matches before a final newline.
HexRegex(s) ==
    LET body == IF s # <<>> /\ s[Len(s)] = "\n" THEN SubSeq(s, 1, Len(s) - 1) ELSE s
    IN  body # <<>> /\ \A i \in 1..Len(body) : IsHexChar(body[i])

\* len(set(s)) == 1 and '0' in s
OnlyZeros(s) == Cardinality(CharSet(s)) = 1 /\ "0" \in CharSet(s)

process_link_data(block) ==
    IF NANO_ADDRESS_REGEX(block.link) THEN derive_public_key_from_address(block.link)
    ELSE IF HexRegex(block.link) THEN Ok(block.link)
    ELSE IF OnlyZeros(block.link) THEN Ok(block.link)
    ELSE Err("InvalidLink")

\* The link bytes: unhexlify(process_link_data(block)).
UnhexlifyResult(data) == IF ~data.ok THEN data ELSE unhexlify(data.val)

LinkBytes(block) == UnhexlifyResult(process_link_data(block))

\* Two other serializations: one leaves the balance out, one swaps the
\* account and the representative.
JoinWithoutBalance(parts) ==
    parts[1] \o parts[2] \o parts[3] \o parts[4] \o parts[6]

JoinRepresentativeFirst(parts) ==
    parts[1] \o parts[4] \o parts[3] \o parts[2] \o parts[5] \o parts[6]

\* b''.join([...]) of the six parts.
Join(parts) ==
    parts[1] \o parts[2] \o parts[3] \o parts[4] \o parts[5] \o parts[6]

\* The locals of create_block_hash, in the order of their assignments, and the
\* joined bytes.
Serialize(public_key, representative_key, previous, balance, link) ==
    IF ~public_key.ok THEN public_key
    ELSE IF ~representative_key.ok THEN representative_key
    ELSE IF ~previous.ok THEN previous
    ELSE IF ~balance.ok THEN balance
    ELSE IF ~link.ok THEN link
    ELSE Ok(Join(<<STATE_BLOCK_HEADER_BYTES, public_key.val, previous.val,
                   representative_key.val, balance.val, link.val>>))

CanonicalBytes(block) ==
    Serialize(UnhexlifyResult(derive_public_key_from_address(block.account)),
              UnhexlifyResult(derive_public_key_from_address(block.representative)),
              unhexlify(block.previous),
              BalanceBytes(block.balance),
              LinkBytes(block))

Digest(bytes) ==
    IF ~bytes.ok THEN bytes
    ELSE Ok(blake2b(bytes.val, SIGNATURE_DIGEST_SIZE_BYTES))

create_block_hash(block) == Digest(CanonicalBytes(block))

(***************************************************************************)
(* Inputs of block hashing.                                                *)
(***************************************************************************)
AddressOf(k) == derive_address_from_public_key(Upper(hexlify(k))).val

Zeros(n) == [i \in 1..n |-> "0"]

\* 2^128 - 1 and 2^128 in decimal.
MaxBalance ==
    <<"3","4","0","2","8","2","3","6","6","9","2","0","9","3","8","4","6","3","4",
      "6","3","3","7","4","6","0","7","4","3","1","7","6","8","2","1","1","4","5","5">>
MaxBalancePlusOne ==
    <<"3","4","0","2","8","2","3","6","6","9","2","0","9","3","8","4","6","3","4",
      "6","3","3","7","4","6","0","7","4","3","1","7","6","8","2","1","1","4","5","6">>

\* A 64-character block hash, in upper case.
BlockHashHex(n) == Upper(hexlify([i \in 1..32 |-> (n * 61 + i * 13 + 170) % 256]))

AccountInputs ==
    {AddressOf(k) : k \in Keys}
    \cup {XrbForm(AddressOf(KeyBytes(1))),
          FlipChecksumChar(AddressOf(KeyBytes(1)), 8, 1),
          <<"n","a","n","o","_","1">>}

PreviousInputs ==
    {Zeros(64), Zeros(2), BlockHashHex(1), hexlify(unhexlify(BlockHashHex(1)).val),
     BlockHashHex(2), <<>>, <<"A","B","C">>, <<"x","y">>}

BalanceInputs ==
    {<<"0">>, <<"1">>, <<"0","1">>, <<"+","1">>, <<" ","1">>, <<"1","_","0">>,
     <<"1","0">>, <<"2","5","6">>, <<"-","1">>, <<"a","b","c">>, <<>>,
     MaxBalance, MaxBalancePlusOne}

LinkInputs ==
    {AddressOf(k) : k \in Keys}
    \cup {Upper(hexlify(KeyBytes(1))), hexlify(KeyBytes(1)),
          BlockHashHex(1), BlockHashHex(1) \o <<"\n">>, Zeros(64), Zeros(2),
          <<"A","B">>, <<"A","B","C">>, <<"x","y">>, <<>>,
          XrbForm(AddressOf(KeyBytes(1))),
          FlipChecksumChar(AddressOf(KeyBytes(1)), 1, 1)}

FieldInputs(f) ==
    CASE f = "account" -> AccountInputs
      [] f = "previous" -> PreviousInputs
      [] f = "representative" -> AccountInputs
      [] f = "balance" -> BalanceInputs
      [] f = "link" -> LinkInputs

HashedFields == {"account", "previous", "representative", "balance", "link"}

\* An account-opening receive block, a send block and a change block.
FirstBlocks ==
    {[account |-> AddressOf(KeyBytes(1)), previous |-> Zeros(64),
      representative |-> AddressOf(KeyBytes(2)), balance |-> <<"1">>,
      link |-> BlockHashHex(1)],
     [account |-> AddressOf(KeyBytes(1)), previous |-> BlockHashHex(1),
      representative |-> AddressOf(KeyBytes(2)), balance |-> <<"1","0">>,
      link |-> AddressOf(KeyBytes(1))],
     [account |-> AddressOf(KeyBytes(2)), previous |-> BlockHashHex(2),
      representative |-> AddressOf(KeyBytes(0)), balance |-> MaxBalance,
      link |-> Zeros(64)]}

HashCall(block) ==
    [op |-> "create_block_hash",
     block |-> block,
     bytes |-> CanonicalBytes(block),
     ret |-> create_block_hash(block)]

(***************************************************************************)
(* Block hashing calls: a block is hashed; then one of its fields is set   *)
(* to another value and the block is hashed again.                         *)
(***************************************************************************)
CreateBlockHash ==
    /\ \E block \in FirstBlocks : hash' = HashCall(block)
    /\ hashPrev' = Idle
    /\ UNCHANGED <<gen, genPrev, enc, dec, gbh, cw, vw, pb, requests>>

SetFieldAndHashAgain ==
    /\ hash.op = "create_block_hash"
    /\ hashPrev.op = "idle"
    /\ \E f \in HashedFields :
         \E v \in FieldInputs(f) :
           hash' = HashCall([hash.block EXCEPT ![f] = v])
    /\ hashPrev' = hash
    /\ UNCHANGED <<gen, genPrev, enc, dec, gbh, cw, vw, pb, requests>>

NextHash == CreateBlockHash \/ SetFieldAndHashAgain

SpecHash == Init /\ [][NextHash]_vars

(***************************************************************************)
(* Claims about block hashing, checked under SpecHash.                     *)
(***************************************************************************)
Hashed(h) == h.op = "create_block_hash"

Is64Hex(s) == Len(s) = 64 /\ \A i \in 1..64 : IsHexChar(s[i])

\* The fields before the link are well formed: the call gets as far as the link.
ReachesLink(block) ==
    /\ derive_public_key_from_address(block.account).ok
    /\ derive_public_key_from_address(block.representative).ok
    /\ unhexlify(block.previous).ok
    /\ BalanceBytes(block.balance).ok

\* C3: a block whose link is neither an address nor 64 hexadecimal characters
\* makes create_block_hash fail with the invalid-link error.
C3_InvalidLinkRejected ==
    (/\ Hashed(hash)
     /\ ReachesLink(hash.block)
     /\ ~NANO_ADDRESS_REGEX(hash.block.link)
     /\ ~Is64Hex(hash.block.link))
        => hash.ret = Err("InvalidLink")

\* The bytes a field contributes to the serialization.
FieldBytes(block, f) ==
    CASE f = "account" -> unhexlify(derive_public_key_from_address(block.account).val).val
      [] f = "previous" -> unhexlify(block.previous).val
      [] f = "representative" ->
             unhexlify(derive_public_key_from_address(block.representative).val).val
      [] f = "balance" -> BalanceBytes(block.balance).val
      [] f = "link" -> LinkBytes(block).val

BothHashed ==
    /\ Hashed(hash) /\ Hashed(hashPrev)
    /\ hash.ret.ok /\ hashPrev.ret.ok

\* C6 as stated: two blocks that both hash and differ in the value of exactly
\* one field have different canonical bytes, and an unchanged block hashes to
\* the same digest.
C6_HashSensitivity ==
    BothHashed =>
        /\ hash.block = hashPrev.block => hash.ret = hashPrev.ret
        /\ Cardinality({f \in HashedFields : hash.block[f] # hashPrev.block[f]}) = 1
               => hash.bytes # hashPrev.bytes

\* C6 as amended: an unchanged block hashes to the same digest; two blocks
\* that both hash and whose fields serialize to different bytes in exactly one
\* field have different canonical bytes; two blocks whose fields all serialize
\* to the same bytes (two spellings of the same values) have the same.
C6_HashSensitivityOfValues ==
    BothHashed =>
        LET changed == {f \in HashedFields :
                           FieldBytes(hash.block, f) # FieldBytes(hashPrev.block, f)}
        IN  /\ hash.block = hashPrev.block => hash.ret = hashPrev.ret
            /\ Cardinality(changed) = 1 => hash.bytes # hashPrev.bytes
            /\ changed = {} => hash.bytes = hashPrev.bytes /\ hash.ret = hashPrev.ret

\* The balance was changed to another number and the block hashed again.
C6_Witness ==
    /\ BothHashed
    /\ hash.block.balance # hashPrev.block.balance
    /\ FieldBytes(hash.block, "balance") # FieldBytes(hashPrev.block, "balance")
    /\ hash.ret # hashPrev.ret

None == <<"None">>

MINIMUM_NETWORK_DIFFICULTY ==
    <<"f","f","f","f","f","f","f","8","0","0","0","0","0","0","0","0">>

MINIMUM_RECEIVE_NETWORK_DIFFICULTY ==
    <<"f","f","f","f","f","e","0","0","0","0","0","0","0","0","0","0">>

get_block_hash(block) ==
    IF OnlyZeros(block.previous)
    THEN derive_public_key_from_address(block.account)
    ELSE Ok(block.previous)

\* The hexadecimal of the reversed digest of nonce || block_hash.
ComputedWork(reversed_nonce, block_hash) ==
    hexlify(Reverse(blake2b(reversed_nonce \o block_hash, WORK_SIZE_BYTES)))

\* validate_work's local `work`: block_hash is computed before bin_nonce.
WorkOfNonce(block_hash, bin_nonce) ==
    IF ~block_hash.ok THEN block_hash
    ELSE IF ~bin_nonce.ok THEN bin_nonce
    ELSE Ok(ComputedWork(Reverse(bin_nonce.val), block_hash.val))

WorkOfNonceNotReversed(block_hash, bin_nonce) ==
    IF ~block_hash.ok THEN block_hash
    ELSE IF ~bin_nonce.ok THEN bin_nonce
    ELSE Ok(ComputedWork(bin_nonce.val, block_hash.val))

\* if work >= difficulty: return True, else: return False
MeetsDifficulty(work, difficulty) ==
    IF ~work.ok THEN work ELSE Ok(StrGE(work.val, difficulty))

\* `not nonce` holds of None and of the empty str.
Falsy(nonce) == nonce = None \/ nonce = <<>>

ValidateWithoutNonceReversal(block, nonce, difficulty) ==
    IF Falsy(nonce) THEN Ok(FALSE)
    ELSE MeetsDifficulty(WorkOfNonceNotReversed(UnhexlifyResult(get_block_hash(block)),
                                                unhexlify(nonce)),
                         difficulty)

validate_work(block, nonce, difficulty) ==
    IF Falsy(nonce) THEN Ok(FALSE)
    ELSE MeetsDifficulty(WorkOfNonce(UnhexlifyResult(get_block_hash(block)),
                                     unhexlify(nonce)),
                         difficulty)

NotReturned == [op |-> "running"]

\* compute_work up to its loop: block_hash may raise; nonce = None.
StartSearch(block, difficulty, timeout_seconds, block_hash) ==
    [op |-> "compute_work",
     block |-> block,
     difficulty |-> difficulty,
     timeout_seconds |-> timeout_seconds,
     block_hash |-> block_hash,
     elapsed |-> 0,
     computed_work |-> None,
     nonce |-> None,
     pc |-> IF block_hash.ok THEN "loop" ELSE "done",
     ret |-> IF block_hash.ok THEN NotReturned ELSE block_hash]

\* The body of the loop for one candidate, and the return that follows the
\* break.
TryCandidate(c, candidate, computed_work) ==
    IF StrGE(computed_work, c.difficulty)
    THEN [c EXCEPT !.computed_work = computed_work,
                   !.nonce = hexlify(candidate),
                   !.pc = "done",
                   !.ret = Ok(hexlify(candidate))]
    ELSE [c EXCEPT !.computed_work = computed_work]

(***************************************************************************)
(* Inputs of the proof of work.                                            *)
(***************************************************************************)
NumNonces == 4
MaxTimeout == 2

\* random.randint(0, MAX_NONCE_SIZE).to_bytes(8, byteorder='big'): the n-th
\* sample of the 2^64 values.
Candidate(n) == [i \in 1..WORK_SIZE_BYTES |-> (n * 83 + i * 29 + n * i * 7) % 256]

Candidates == {Candidate(n) : n \in 1..NumNonces}

NonceInputs ==
    {hexlify(c) : c \in Candidates}
    \cup {Upper(hexlify(Candidate(1))), None, <<>>, <<"x","y">>, <<"a","b">>}

HalfDifficulty ==
    <<"8","0","0","0","0","0","0","0","0","0","0","0","0","0","0","0">>

DifficultyInputs ==
    {MINIMUM_NETWORK_DIFFICULTY, Upper(MINIMUM_NETWORK_DIFFICULTY),
     MINIMUM_RECEIVE_NETWORK_DIFFICULTY, HalfDifficulty, Zeros(16)}

TimeoutInputs == 0..MaxTimeout

\* The blocks of FirstBlocks, and the account-opening block with a short
\* all-zero previous, with a previous that is not hexadecimal, and with an
\* account whose checksum is wrong.
WorkBlocks ==
    FirstBlocks
    \cup {[b EXCEPT !.previous = p] :
             b \in {x \in FirstBlocks : x.previous = Zeros(64)},
             p \in {Zeros(2), <<"A","B","C">>}}
    \cup {[b EXCEPT !.account = FlipChecksumChar(b.account, 8, 1)] :
             b \in {x \in FirstBlocks : x.previous = Zeros(64)}}

ValidateCall(block, nonce, difficulty) ==
    [op |-> "validate_work",
     block |-> block,
     nonce |-> nonce,
     difficulty |-> difficulty,
     work |-> IF Falsy(nonce) THEN Ok(None)
              ELSE WorkOfNonce(UnhexlifyResult(get_block_hash(block)), unhexlify(nonce)),
     ret |-> validate_work(block, nonce, difficulty)]

\* The calls on the inputs, tabulated: each is computed once.
GetBlockHashCalls ==
    [block \in WorkBlocks |->
        [op |-> "get_block_hash", block |-> block, ret |-> get_block_hash(block)]]

SearchStarts ==
    [block \in WorkBlocks |-> UnhexlifyResult(get_block_hash(block))]

ValidateCalls ==
    [block \in WorkBlocks, nonce \in NonceInputs, difficulty \in DifficultyInputs |->
        ValidateCall(block, nonce, difficulty)]

(***************************************************************************)
(* Proof-of-work calls.  compute_work is a loop: it tests the process time *)
(* at the top of each iteration, and time passes while it runs.            *)
(***************************************************************************)
Searching == cw.op = "compute_work" /\ cw.pc = "loop"

\* A call starts when no call is running.
GetBlockHash ==
    /\ ~Searching
    /\ \E block \in WorkBlocks :
         gbh' = GetBlockHashCalls[block]
    /\ cw' = Idle
    /\ vw' = Idle
    /\ UNCHANGED <<gen, genPrev, enc, dec, hash, hashPrev, pb, requests>>

ComputeWorkCall ==
    /\ ~Searching
    /\ \E block \in WorkBlocks, difficulty \in DifficultyInputs,
          timeout_seconds \in TimeoutInputs :
         cw' = StartSearch(block, difficulty, timeout_seconds, SearchStarts[block])
    /\ vw' = Idle
    /\ gbh' = Idle
    /\ UNCHANGED <<gen, genPrev, enc, dec, hash, hashPrev, pb, requests>>

ProcessTimePasses ==
    /\ Searching
    /\ cw.elapsed < cw.timeout_seconds
    /\ cw' = [cw EXCEPT !.elapsed = cw.elapsed + 1]
    /\ UNCHANGED <<gen, genPrev, enc, dec, hash, hashPrev, gbh, vw, pb, requests>>

ComputeWorkIterate ==
    /\ Searching
    /\ cw.elapsed < cw.timeout_seconds
    /\ \E candidate \in Candidates :
         cw' = TryCandidate(cw, candidate,
                            ComputedWork(Reverse(candidate), cw.block_hash.val))
    /\ UNCHANGED <<gen, genPrev, enc, dec, hash, hashPrev, gbh, vw, pb, requests>>

ComputeWorkTimeout ==
    /\ Searching
    /\ ~(cw.elapsed < cw.timeout_seconds)
    /\ cw' = [cw EXCEPT !.pc = "done", !.ret = Ok(None)]
    /\ UNCHANGED <<gen, genPrev, enc, dec, hash, hashPrev, gbh, vw, pb, requests>>

Returned(c) == c.op = "compute_work" /\ c.pc = "done" /\ c.ret.ok

\* nonce = compute_work(block, ...); validate_work(block, nonce, ...)
ValidateFoundWork ==
    /\ Returned(cw)
    /\ vw' = ValidateCalls[cw.block, cw.ret.val, cw.difficulty]
    /\ UNCHANGED <<gen, genPrev, enc, dec, hash, hashPrev, gbh, cw, pb, requests>>

ValidateWork ==
    /\ ~Searching
    /\ \E block \in WorkBlocks, nonce \in NonceInputs, difficulty \in DifficultyInputs :
         vw' = ValidateCalls[block, nonce, difficulty]
    /\ cw' = Idle
    /\ gbh' = Idle
    /\ UNCHANGED <<gen, genPrev, enc, dec, hash, hashPrev, pb, requests>>

NextWork ==
    \/ GetBlockHash
    \/ ComputeWorkCall
    \/ ProcessTimePasses
    \/ ComputeWorkIterate
    \/ ComputeWorkTimeout
    \/ ValidateFoundWork
    \/ ValidateWork

SpecWork == Init /\ [][NextWork]_vars

(***************************************************************************)
(* Claims about the proof of work, checked under SpecWork.                 *)
(***************************************************************************)
Is16Hex(s) == Len(s) = 2 * WORK_SIZE_BYTES /\ \A i \in 1..Len(s) : IsHexChar(s[i])

\* a >= b for two byte strings of the same length read as big-endian integers.
BytesGE(a, b) ==
    \/ a = b
    \/ \E i \in 1..Len(a) :
         /\ a[i] > b[i]
         /\ \A j \in 1..(i - 1) : a[j] = b[j]

Validated(v) == v.op = "validate_work"

\* C4: for an 8-byte nonce and a difficulty of 16 hexadecimal digits in either
\* case, validate_work returns True exactly when the reversed digest, as a
\* 64-bit big-endian integer, is at least the difficulty as a 64-bit integer.
C4_WorkThreshold ==
    (/\ Validated(vw)
     /\ Is16Hex(vw.nonce)
     /\ Is16Hex(vw.difficulty)
     /\ vw.work.ok)
        => vw.ret = Ok(BytesGE(unhexlify(vw.work.val).val, unhexlify(vw.difficulty).val))

\* C5: get_block_hash returns the decoded public key of account when previous
\* is exactly 64 '0' characters, and previous itself for every other previous.
C5_WorkBaseSelection ==
    gbh.op = "get_block_hash"
        => IF gbh.block.previous = Zeros(64)
           THEN gbh.ret = derive_public_key_from_address(gbh.block.account)
           ELSE gbh.ret = Ok(gbh.block.previous)

FoundNonce(c) == Returned(c) /\ c.ret.val # None

\* C9: a nonce returned by compute_work validates: validate_work of the same
\* block, that nonce and the same difficulty returns True, and it computes the
\* work value the search computed for the nonce.
C9_SearchAndValidateAgree ==
    FoundNonce(cw)
        => /\ validate_work(cw.block, cw.ret.val, cw.difficulty) = Ok(TRUE)
           /\ (Validated(vw)
                  => /\ vw.block = cw.block /\ vw.nonce = cw.ret.val
                     /\ vw.difficulty = cw.difficulty
                     /\ vw.ret = Ok(TRUE)
                     /\ vw.work = Ok(cw.computed_work))

\* A search against a difficulty that not every value meets found a nonce
\* after a candidate had failed, and the nonce was validated.
C9_Witness ==
    /\ FoundNonce(cw)
    /\ cw.difficulty = HalfDifficulty
    /\ cw.elapsed > 0
    /\ Validated(vw)
    /\ vw.ret = Ok(TRUE)
    /\ \E c \in Candidates :
         ~StrGE(ComputedWork(Reverse(c), cw.block_hash.val), cw.difficulty)

\* The search ended: it returned or raised.
Ended(c) == c.op = "compute_work" /\ c.pc = "done"

\* The reversed digest of a nonce, as the 8 bytes of a big-endian integer.
WorkValue(nonce, block_hash) ==
    Reverse(blake2b(Reverse(unhexlify(nonce).val) \o block_hash, WORK_SIZE_BYTES))

\* C12: a search on a block whose base is well formed, against a difficulty of
\* 16 hexadecimal digits, ends without raising; it returns None only when the
\* timeout has elapsed, and a nonce only when the work value of that nonce, as
\* a 64-bit integer, is at least the difficulty.
C12_SearchOutcome ==
    (Ended(cw) /\ cw.block_hash.ok /\ Is16Hex(cw.difficulty))
        => /\ cw.ret.ok
           /\ cw.ret.val = None => ~(cw.elapsed < cw.timeout_seconds)
           /\ cw.ret.val # None
                  => /\ Is16Hex(cw.ret.val)
                     /\ BytesGE(WorkValue(cw.ret.val, cw.block_hash.val),
                                unhexlify(cw.difficulty).val)

\* The process time of a running search advances, and the loop tests it.
SpecWorkFair ==
    SpecWork /\ WF_vars(ProcessTimePasses) /\ WF_vars(ComputeWorkTimeout)

\* C12, termination: under SpecWorkFair every search ends.
C12_SearchEnds == Searching ~> Ended(cw)

(***************************************************************************)
(* Signatures.  ed25519_blake2b signs with a private key and verifies with *)
(* the public key of that private key: a signature is modelled as a        *)
(* 64-byte hash of the public key and the message.                         *)
(***************************************************************************)
Sign(private_key, message) ==
    blake2b(VerifyingKey(private_key) \o message, 2 * SIGNATURE_DIGEST_SIZE_BYTES)

\* verifying_key.verify(signature_bits, block_hash) does not raise
\* BadSignatureError.
Verifies(public_key, signature_bits, message) ==
    signature_bits = blake2b(public_key \o message, 2 * SIGNATURE_DIGEST_SIZE_BYTES)

SignHash(block_hash_bits, private_key) ==
    IF ~block_hash_bits.ok THEN block_hash_bits
    ELSE IF ~private_key.ok THEN private_key
    ELSE Ok(Upper(hexlify(Sign(private_key.val, block_hash_bits.val))))

create_block_signature(block, private_key) ==
    SignHash(create_block_hash(block), unhexlify(private_key))

\* The locals of validate_block_signature, in the order of their assignments.
VerifyHash(public_key, block_hash, signature_bits) ==
    IF ~public_key.ok THEN public_key
    ELSE IF ~block_hash.ok THEN block_hash
    ELSE IF ~signature_bits.ok THEN signature_bits
    ELSE Ok(Verifies(public_key.val, signature_bits.val, block_hash.val))

validate_block_signature(block, signature, address) ==
    VerifyHash(UnhexlifyResult(derive_public_key_from_address(address)),
               create_block_hash(block),
               unhexlify(signature))

(***************************************************************************)
(* process_block: validate the work, validate the signature, post the      *)
(* block to the node, return the node's answer.                            *)
(***************************************************************************)
StartProcess(block, subtype, difficulty) ==
    [op |-> "process_block",
     block |-> block,
     subtype |-> subtype,
     difficulty |-> difficulty,
     work_valid |-> NotReturned,
     signature_valid |-> NotReturned,
     pc |-> "validate_work",
     ret |-> NotReturned]

\* if not validate_work(...): raise Exception('Work used in block is invalid.')
AfterValidateWork(p, valid) ==
    IF ~valid.ok THEN [p EXCEPT !.work_valid = valid, !.pc = "done", !.ret = valid]
    ELSE IF ~valid.val
    THEN [p EXCEPT !.work_valid = valid, !.pc = "done", !.ret = Err("WorkInvalid")]
    ELSE [p EXCEPT !.work_valid = valid, !.pc = "validate_block_signature"]

\* A process_block that posts whatever the signature check returned.
AfterSignatureWithoutRaise(p, valid) ==
    IF ~valid.ok THEN [p EXCEPT !.signature_valid = valid, !.pc = "done", !.ret = valid]
    ELSE [p EXCEPT !.signature_valid = valid, !.pc = "post"]

\* if not validate_block_signature(...): raise Exception('Signature used in
\* block is invalid.')
AfterValidateSignature(p, valid) ==
    IF ~valid.ok THEN [p EXCEPT !.signature_valid = valid, !.pc = "done", !.ret = valid]
    ELSE IF ~valid.val
    THEN [p EXCEPT !.signature_valid = valid, !.pc = "done", !.ret = Err("SignatureInvalid")]
    ELSE [p EXCEPT !.signature_valid = valid, !.pc = "post"]

\* data = {'subtype': subtype, 'action': 'process', 'block': block,
\*         'json_block': True}
RequestData(p) ==
    [subtype |-> p.subtype, action |-> "process", block |-> p.block, json_block |-> TRUE]

(***************************************************************************)
(* Inputs of process_block: an account-opening block and a send block of   *)
(* one account, each with a work and a signature field.                    *)
(***************************************************************************)
NumSigners == 2

PrivateKeyBytes(n) == [i \in 1..KEYS_SIZE_BYTES |-> (n * 97 + i * 13 + 7) % 256]

PrivateKey(n) == Upper(hexlify(PrivateKeyBytes(n)))

SignerAddress(n) == AddressOf(VerifyingKey(PrivateKeyBytes(n)))

OpenBlock ==
    [account |-> SignerAddress(1), previous |-> Zeros(64),
     representative |-> AddressOf(KeyBytes(2)), balance |-> <<"1">>,
     link |-> BlockHashHex(1)]

SendBlock ==
    [account |-> SignerAddress(1), previous |-> BlockHashHex(1),
     representative |-> AddressOf(KeyBytes(2)), balance |-> <<"0">>,
     link |-> AddressOf(KeyBytes(1))]

\* Nonces of the two blocks whose work value is at least
\* MINIMUM_NETWORK_DIFFICULTY, and nonces whose work value is at least
\* MINIMUM_RECEIVE_NETWORK_DIFFICULTY and below MINIMUM_NETWORK_DIFFICULTY.
OpenWork ==
    <<"7","7","f","8","7","9","f","5","0","6","a","e","8","7","7","f">>
OpenWorkReceive ==
    <<"d","9","8","8","3","6","d","e","c","c","6","2","7","3","0","4">>
SendWork ==
    <<"c","7","7","8","2","9","d","8","6","3","8","d","8","2","0","9">>
SendWorkReceive ==
    <<"9","0","8","0","6","f","5","3","5","9","d","5","1","b","4","8">>

\* What a search left in the work field: a nonce, or None after a timeout; and
\* a nonce that meets neither difficulty.
WorkInputs(block) ==
    (IF block = OpenBlock THEN {OpenWork, OpenWorkReceive} ELSE {SendWork, SendWorkReceive})
    \cup {Zeros(16), None}

\* Signatures of the block by the account's key (signer 1) and by other
\* keys, and a string that is no hexadecimal encoding.
SignatureInputs(block) ==
    {create_block_signature(block, PrivateKey(n)).val : n \in 1..NumSigners}
    \cup {<<"x","y">>}

SubmitBlocksOf(block) ==
    {block @@ [work |-> work, signature |-> signature] :
        work \in WorkInputs(block), signature \in SignatureInputs(block)}

SubmitBlocks == SubmitBlocksOf(OpenBlock) \cup SubmitBlocksOf(SendBlock)

SubtypeInputs == {"open", "send"}

SubmitDifficulties == {MINIMUM_NETWORK_DIFFICULTY, MINIMUM_RECEIVE_NETWORK_DIFFICULTY}

\* r.json(): the node accepted the block or answered with an error; or the
\* request raised.
NodeAnswers == {Ok(<<"hash">>), Ok(<<"error">>), Err("RequestException")}

(***************************************************************************)
(* The steps of process_block.  One activation runs at a time.             *)
(***************************************************************************)
Processing == pb.op = "process_block" /\ pb.pc # "done"

ProcessBlockCall ==
    /\ ~Processing
    /\ \E block \in SubmitBlocks, subtype \in SubtypeInputs,
          difficulty \in SubmitDifficulties :
         pb' = StartProcess(block, subtype, difficulty)
    /\ requests' = <<>>
    /\ UNCHANGED <<gen, genPrev, enc, dec, hash, hashPrev, gbh, cw, vw>>

\* validate_work(block, block['work']): the difficulty is the default of
\* validate_work's parameter.
ProcessBlockValidateWork ==
    /\ Processing
    /\ pb.pc = "validate_work"
    /\ pb' = AfterValidateWork(pb, validate_work(pb.block, pb.block.work,
                                                 MINIMUM_NETWORK_DIFFICULTY))
    /\ UNCHANGED <<gen, genPrev, enc, dec, hash, hashPrev, gbh, cw, vw, requests>>

ProcessBlockValidateSignature ==
    /\ Processing
    /\ pb.pc = "validate_block_signature"
    /\ pb' = AfterValidateSignature(pb, validate_block_signature(pb.block,
                                                                 pb.block.signature,
                                                                 pb.block.account))
    /\ UNCHANGED <<gen, genPrev, enc, dec, hash, hashPrev, gbh, cw, vw, requests>>

\* requests.post(DEFAULT_NANO_NODE, json=data)
ProcessBlockPost ==
    /\ Processing
    /\ pb.pc = "post"
    /\ requests' = Append(requests, RequestData(pb))
    /\ pb' = [pb EXCEPT !.pc = "response"]
    /\ UNCHANGED <<gen, genPrev, enc, dec, hash, hashPrev, gbh, cw, vw>>

ProcessBlockReturn ==
    /\ Processing
    /\ pb.pc = "response"
    /\ \E answer \in NodeAnswers : pb' = [pb EXCEPT !.pc = "done", !.ret = answer]
    /\ UNCHANGED <<gen, genPrev, enc, dec, hash, hashPrev, gbh, cw, vw, requests>>

NextSubmit ==
    \/ ProcessBlockCall
    \/ ProcessBlockValidateWork
    \/ ProcessBlockValidateSignature
    \/ ProcessBlockPost
    \/ ProcessBlockReturn

SpecSubmit == Init /\ [][NextSubmit]_vars

(***************************************************************************)
(* Claims about process_block, checked under SpecSubmit.                   *)
(***************************************************************************)
Processed(p) == p.op = "process_block" /\ p.pc = "done"

\* C13: a request is posted only after validate_work and
\* validate_block_signature have both returned True for the block, and it
\* carries that block; when either returns False, as validate_work does for a
\* work field that is None, process_block raises and posts nothing.
C13_ValidateBeforeSubmit ==
    pb.op = "process_block"
        => /\ requests # <<>>
                  => /\ requests = <<RequestData(pb)>>
                     /\ pb.work_valid = Ok(TRUE)
                     /\ pb.signature_valid = Ok(TRUE)
                     /\ validate_block_signature(pb.block, pb.block.signature,
                                                 pb.block.account) = Ok(TRUE)
           /\ (pb.work_valid = Ok(FALSE) \/ pb.signature_valid = Ok(FALSE))
                  => /\ Processed(pb)
                     /\ ~pb.ret.ok
                     /\ requests = <<>>
           /\ (pb.block.work = None /\ pb.pc # "validate_work")
                  => pb.work_valid = Ok(FALSE)

\* A block passed both checks, was posted, and the node's answer returned.
C13_Witness ==
    /\ Processed(pb)
    /\ pb.ret.ok
    /\ requests = <<RequestData(pb)>>

\* C14: a correctly signed block whose work validates at the difficulty the
\* caller passes to process_block passes the work check and is posted.
C14_CallerDifficulty ==
    (/\ Processed(pb)
     /\ validate_block_signature(pb.block, pb.block.signature, pb.block.account)
            = Ok(TRUE)
     /\ validate_work(pb.block, pb.block.work, pb.difficulty) = Ok(TRUE))
        => /\ pb.work_valid = Ok(TRUE)
           /\ requests = <<RequestData(pb)>>

=============================================================================
